---- MODULE Spec2Model ----
(***************************************************************************)
(* Model of the probabilistic data structures of this repository:          *)
(*   Bfilter (src/bloomfilter.py)       - Bloom filter, double hashing     *)
(*   FM_1, FM_st (src/flajoletMartin.py) - Flajolet-Martin counters        *)
(*                                                                         *)
(* One behaviour follows the lifetime of one object: Init is the state     *)
(* right after the constructor has run on arguments drawn from small sets  *)
(* (the constructor may have raised: status records the outcome), and each *)
(* action is one method call, run to completion.                           *)
(*                                                                         *)
(* Integers wider than TLC's are kept in binary, as the set of the         *)
(* positions of their 1 bits (bit 0 is the least significant).             *)
(***************************************************************************)
EXTENDS Integers, Sequences, FiniteSets, TLC

VARIABLES
    kind,      \* which class the object is: "Bfilter", "FM_1" or "FM_st"
    status,    \* outcome of __init__: "ok" or the name of the exception raised
    args,      \* the constructor's arguments
    salt,      \* selects the hash function of the run (mmh3 is deterministic)
    n,         \* Bfilter.n
    k,         \* Bfilter.k
    array,     \* Bfilter.array, a function 0..n-1 -> {0, 1}
    R,         \* FM_1.R
    s,         \* FM_st.s
    t,         \* FM_st.t
    R_TABLE,   \* FM_st.R_TABLE, a function (0..t-1) \X (0..s-1) -> Nat
    inserted,  \* history: the elements whose insert has completed
    last,      \* history: the last call, its argument and what it returned
    visits,    \* history: the <<i, j, seed>> of each cell update of the last FM_st.insert
    other,     \* a second Bfilter with the same n and k (merge scenario only)
    procs      \* the insert calls in progress (interleaved scenario only)

vars == <<kind, status, args, salt, n, k, array, R, s, t, R_TABLE,
          inserted, last, visits, other, procs>>

---------------------------------------------------------------------------
(* Bounds of the model.                                                    *)

MaxM == 2          \* m is drawn from -1..MaxM
MaxS == 3          \* s is drawn from -1..MaxS
MaxT == 3          \* t is drawn from -1..MaxT
StreamLen == 3     \* the elements are the first StreamLen words of U
MaxSalt == 3       \* hash functions tried: salt in 0..MaxSalt
NumProcs == 2      \* insert calls that run interleaved
MaxConcCells == 4  \* cells of a grid whose insert calls run interleaved

---------------------------------------------------------------------------
(* Small helpers.                                                          *)

Max(a, b) == IF a >= b THEN a ELSE b

SetMax(S) == CHOOSE x \in S : \A y \in S : y <= x

SetMin(S) == CHOOSE x \in S : \A y \in S : x <= y

\* Python's math.floor(a / b) and math.ceil(a / b) for integers a, b with b # 0.
FloorDiv(a, b) == IF b > 0 THEN a \div b ELSE (-a) \div (-b)

CeilDiv(a, b) == -FloorDiv(-a, b)

\* Mutant of PyMod: the remainder takes the sign of a, as C's % does.
TruncMod(a, b) == IF a >= 0 THEN a % b ELSE -((-a) % b)

\* Python's a % b for b > 0 (the result is in 0..b-1 also for negative a).
PyMod(a, b) == a - b * FloorDiv(a, b)

---------------------------------------------------------------------------
(* The stream.  An element is a string, modelled as the sequence of its    *)
(* character codes; U holds a few short words over a three-letter alphabet, *)
(* two of them anagrams of each other.                                     *)

U == << <<1, 2>>, <<2, 1>>, <<3>>, <<1, 1, 2>>, <<2, 3>> >>

Elems == { U[i] : i \in 1..StreamLen }

RECURSIVE SumOrd(_)
SumOrd(element) ==
    IF element = << >> THEN 0 ELSE Head(element) + SumOrd(Tail(element))

\* The content of the string as one number (what the hash library reads).
RECURSIVE StrCode(_)
StrCode(element) ==
    IF element = << >> THEN 0 ELSE Head(element) + 4 * StrCode(Tail(element))

---------------------------------------------------------------------------
(* The hash library (mmh3) is outside the repository.  All the code relies *)
(* on is that it is a deterministic function of (element, seed); the model *)
(* takes it from a family of such functions indexed by salt, with values   *)
(* drawn from a table of representative results.                          *)

\* mmh3.hash returns a signed 32-bit integer: negative, zero and positive
\* values all occur.
MMH3Vals == << 0, 1, -1, 2, -3, 5, -8, 7 >>

Mix(code, seed, len) == ((code + seed) * (salt + 1) + seed) % len

mmh3_hash(element, seed) ==
    MMH3Vals[Mix(StrCode(element), seed, Len(MMH3Vals)) + 1]

---------------------------------------------------------------------------
(* Bfilter                                                                 *)

\* p is kept in tenths (p = 5 stands for 0.5), and math.log in thousandths.
LnMilli(p) ==
    CASE p = 1  -> -2303
      [] p = 5  -> -693
      [] p = 9  -> -105
      [] p = 10 -> 0
      [] p = 11 -> 95
      [] p = 20 -> 693

Ln2Milli == 693

PVals == {-5, 0, 1, 5, 9, 10, 11, 20}

MVals == -1..MaxM

\* The arguments the documentation of the class asks for.
BfValidArgs(m, p) == m >= 1 /\ 0 < p /\ p < 10

\* Mutant of BfN: the quotient is rounded down, not up.
BfNFloor(m, p) == FloorDiv(-m * LnMilli(p) * 1000, Ln2Milli * Ln2Milli)

\* line 43: n = math.ceil(-m * math.log(p) / (math.log(2) ** 2))
BfN(m, p) == CeilDiv(-m * LnMilli(p) * 1000, Ln2Milli * Ln2Milli)

\* line 46: math.floor(self.n / m * math.log(2))
BfK0(m, p) == FloorDiv(BfN(m, p) * Ln2Milli, m * 1000)

\* Mutant of BfK: a k of 0 is kept.
BfKNoClamp(m, p) == BfK0(m, p)

\* lines 46-48: a k of 0 becomes 1.
BfK(m, p) == IF BfK0(m, p) = 0 THEN 1 ELSE BfK0(m, p)

\* What __init__ ends in: math.log raises ValueError for p <= 0, bitarray(n)
\* raises ValueError for n < 0, and self.n / m raises ZeroDivisionError for
\* m = 0; there is no other check of the arguments.
BfInitStatus(m, p) ==
    IF p <= 0 THEN "ValueError"
    ELSE IF BfN(m, p) < 0 THEN "ValueError"
    ELSE IF m = 0 THEN "ZeroDivisionError"
    ELSE "ok"

\* lines 44-45: bitarray(n), setall(0)
ZeroArray(len) == [i \in 0..(len - 1) |-> 0]

\* line 54: (h1 + i * h2) % self.n
BfIndex(element, i) ==
    PyMod(mmh3_hash(element, 1) + i * mmh3_hash(element, 2), n)

\* Mutant of SetBit: the bit is set in a fresh array, the other bits are lost.
SetBitFresh(arr, idx) == [[i \in DOMAIN arr |-> 0] EXCEPT ![idx] = 1]

\* line 54: self.array[...] = 1
SetBit(arr, idx) == [arr EXCEPT ![idx] = 1]

\* Mutant of BfInsertLoop: the loop stops one iteration early.
RECURSIVE BfInsertLoopShort(_, _, _)
BfInsertLoopShort(arr, element, i) ==
    IF i >= k - 1 THEN arr
    ELSE BfInsertLoopShort(SetBit(arr, BfIndex(element, i)), element, i + 1)

\* lines 53-54: the loop of insert, from iteration i on.
RECURSIVE BfInsertLoop(_, _, _)
BfInsertLoop(arr, element, i) ==
    IF i >= k THEN arr
    ELSE BfInsertLoop(SetBit(arr, BfIndex(element, i)), element, i + 1)

\* Mutant of BfMembershipLoop: only the first of the k bits is tested.
BfMembershipFirstBit(arr, element, i) == k <= 0 \/ arr[BfIndex(element, 0)] = 1

\* lines 59-64: the loop of membership, from iteration i on.
RECURSIVE BfMembershipLoop(_, _, _)
BfMembershipLoop(arr, element, i) ==
    IF i >= k THEN TRUE
    ELSE IF arr[BfIndex(element, i)] = 0 THEN FALSE
    ELSE BfMembershipLoop(arr, element, i + 1)

\* The modulo by self.n raises ZeroDivisionError in the first iteration when
\* the filter was built with n = 0 (and the loop runs at all).
BfRaises == k > 0 /\ n = 0

---------------------------------------------------------------------------
(* Binary arithmetic on integers of any width (sets of 1-bit positions).   *)

\* Bit positions of the machine words the model computes in: wide enough
\* for a 128-bit digest and its two's complement.
WordBits == 0..128

\* a << c
ShiftLeft(a, c) == { b + c : b \in a }

\* a & b
BitAnd(a, b) == a \cap b

\* a + 1 within WordBits: the carry runs through the low 1 bits.
PlusOne(a) ==
    IF WordBits \ a = {} THEN {}
    ELSE LET z == SetMin(WordBits \ a)
         IN  (a \ (0..(z - 1))) \cup {z}

\* a - 1 for a > 0: the borrow runs through the low 0 bits.
MinusOne(a) ==
    LET z == SetMin(a)
    IN  (a \ {z}) \cup (0..(z - 1))

\* Mutant of Neg: the bits are inverted and no one is added (~a for -a).
Invert(a) == WordBits \ a

\* -a in two's complement: invert and add one.
Neg(a) == PlusOne(WordBits \ a)

\* int.bit_length()
BitLength(a) == IF a = {} THEN 0 ELSE SetMax(a) + 1

---------------------------------------------------------------------------
(* FM_1 and FM_st                                                          *)

\* lines 38 and 67: (1 << 64) - 1
mask == MinusOne(ShiftLeft({0}, 64))

\* mmh3.hash128(..., signed=False) returns an unsigned 128-bit integer.  The
\* table holds digests that are odd, that end in one, two, three and 63 zero
\* bits, and one whose low 64 bits are all 0.
HASH128Vals ==
    << {0, 5, 64}, {1, 2, 90}, {64, 100}, {2}, {0}, {3, 63, 127}, {1, 70}, {63, 64} >>

mmh3_hash128(element, seed) ==
    HASH128Vals[Mix(StrCode(element), seed, Len(HASH128Vals)) + 1]

\* Mutant of Zeros: a zero value counts as the width of the digest.
ZerosDigestWidth(val) ==
    IF val = {} THEN 128
    ELSE BitLength(BitAnd(val, Neg(val))) - 1

\* lines 49-52 and 93-96: count trailing zeros.
Zeros(val) ==
    IF val = {} THEN 64
    ELSE BitLength(BitAnd(val, Neg(val))) - 1

\* Mutant of CellUpdate: the counter is overwritten, not maximised.
CellOverwrite(current, zeros) == zeros

\* lines 54 and 98: max(current, zeros)
CellUpdate(current, zeros) == Max(current, zeros)

\* lines 42-46: the seed is the sum of the character codes of the element.
Fm1Val(element) == BitAnd(mmh3_hash128(element, SumOrd(element)), mask)

\* lines 41-54
Fm1InsertR(r, element) == CellUpdate(r, Zeros(Fm1Val(element)))

\* line 83: np.zeros((t, s), dtype=int) raises ValueError for a negative
\* dimension and builds an empty table for a dimension of 0.
FmstInitStatus(ss, tt) == IF ss < 0 \/ tt < 0 THEN "ValueError" ELSE "ok"

ZeroTable(ss, tt) == [c \in (0..(tt - 1)) \X (0..(ss - 1)) |-> 0]

\* line 91
FmstVal(element, seed) == BitAnd(mmh3_hash128(element, seed), mask)

\* Mutant of NextSeed: the seed is never advanced.
SameSeed(seed) == seed

\* line 100: seed = seed + 1
NextSeed(seed) == seed + 1

\* lines 87-100: the two nested loops of insert, from cell (i, j) on, with
\* the running seed.  log collects the <<i, j, seed>> of every cell update.
RECURSIVE FmstInsertLoop(_, _, _, _, _, _)
FmstInsertLoop(tab, log, element, i, j, seed) ==
    IF i >= t THEN [tab |-> tab, log |-> log]
    ELSE IF j >= s THEN FmstInsertLoop(tab, log, element, i + 1, 0, seed)
    ELSE FmstInsertLoop(
             [tab EXCEPT ![<<i, j>>] = CellUpdate(@, Zeros(FmstVal(element, seed)))],
             Append(log, <<i, j, seed>>), element, i, j + 1, NextSeed(seed))

\* Mutant of FmstInsertTable: the seed is not reset, it runs on from the
\* inserts before.
FmstInsertTableCarrySeed(tab, element) ==
    FmstInsertLoop(tab, << >>, element, 0, 0, Cardinality(inserted) * s * t)

\* lines 85-100: the loops from cell (0, 0) with seed 0 (line 87)
FmstInsertTable(tab, element) == FmstInsertLoop(tab, << >>, element, 0, 0, 0)

---------------------------------------------------------------------------
(* Unbounded naturals in binary, and the double-precision numbers the      *)
(* queries compute with.  A double x >= 0 is a record [m, e] standing for  *)
(* m * 2^e with m an integer of at most 53 bits; every operation rounds to *)
(* nearest, ties to even, as IEEE 754 does.                                *)

\* a ^ b
BitXor(a, b) == (a \ b) \cup (b \ a)

\* a + b: add without carry, then add the carries.
RECURSIVE BigAdd(_, _)
BigAdd(a, b) ==
    IF b = {} THEN a ELSE BigAdd(BitXor(a, b), ShiftLeft(BitAnd(a, b), 1))

\* a - b for a >= b: subtract without borrow, then subtract the borrows.
RECURSIVE BigSub(_, _)
BigSub(a, b) ==
    IF b = {} THEN a ELSE BigSub(BitXor(a, b), ShiftLeft(b \ a, 1))

\* a < b: the highest bit in which the two differ is a bit of b.
BigLess(a, b) == \E i \in b \ a : \A j \in a \ b : j < i

\* The binary digits of a small natural number.
RECURSIVE IntBits(_)
IntBits(x) ==
    IF x = 0 THEN {}
    ELSE (IF x % 2 = 1 THEN {0} ELSE {}) \cup ShiftLeft(IntBits(x \div 2), 1)

\* One step of the long division of a by d > 0: bring down bit i of a.
DivStep(a, d, i, st) ==
    LET r2 == ShiftLeft(st.r, 1) \cup (IF i \in a THEN {0} ELSE {})
    IN  IF BigLess(r2, d) THEN [q |-> st.q, r |-> r2]
        ELSE [q |-> st.q \cup {i}, r |-> BigSub(r2, d)]

\* cnt steps of the long division, from bit i of a down.
RECURSIVE DivLoop(_, _, _, _, _)
DivLoop(a, d, i, cnt, st) ==
    IF cnt = 0 \/ i < 0 \/ st.r = WordBits THEN st
    ELSE DivLoop(a, d, i - 1, cnt - 1, DivStep(a, d, i, st))

\* The long division in blocks of 16 bits (the blocks only keep the depth of
\* the evaluation small).
RECURSIVE DivBlocks(_, _, _, _)
DivBlocks(a, d, i, st) ==
    IF i < 0 \/ st.r = WordBits THEN st
    ELSE DivBlocks(a, d, i - 16, DivLoop(a, d, i, 16, st))

\* a divided by d > 0: quotient q and remainder r.
BigDivMod(a, d) == DivBlocks(a, d, BitLength(a) - 1, [q |-> {}, r |-> {}])

\* Bits of a double's significand.
Precision == 53

\* (m + f) * 2^e rounded to a double, where 0 <= f < 1 and sticky says f > 0.
RoundDouble(m, e, sticky) ==
    IF BitLength(m) <= Precision THEN [m |-> m, e |-> e]
    ELSE LET d    == BitLength(m) - Precision
             kept == { b - d : b \in { c \in m : c >= d } }
             half == (d - 1) \in m
             rest == sticky \/ (\E b \in m : b < d - 1)
             up   == half /\ (rest \/ 0 \in kept)
         IN  [m |-> IF up THEN PlusOne(kept) ELSE kept, e |-> e + d]

\* float(x) of a natural number x
ToDouble(x) == RoundDouble(x, 0, FALSE)

\* x + y
FAdd(x, y) ==
    LET e == IF x.e <= y.e THEN x.e ELSE y.e
    IN  RoundDouble(BigAdd(ShiftLeft(x.m, x.e - e), ShiftLeft(y.m, y.e - e)), e, FALSE)

\* x / y for y > 0.  A power of two divides exactly: only the exponent
\* changes.  Otherwise the long division gives enough quotient bits that the
\* rounding is decided.
FDiv(x, y) ==
    IF x.m = {} THEN x
    ELSE IF Cardinality(y.m) = 1 THEN [m |-> x.m, e |-> x.e - y.e - SetMax(y.m)]
    ELSE LET c  == Precision + 2 + BitLength(y.m) - BitLength(x.m)
             sh == IF c > 0 THEN c ELSE 0
             qr == BigDivMod(ShiftLeft(x.m, sh), y.m)
         IN  RoundDouble(qr.q, x.e - y.e - sh, qr.r # {})

\* x < y
FLess(x, y) ==
    LET e == IF x.e <= y.e THEN x.e ELSE y.e
    IN  BigLess(ShiftLeft(x.m, x.e - e), ShiftLeft(y.m, y.e - e))

FEq(x, y) == ~FLess(x, y) /\ ~FLess(y, x)

\* math.floor(x), an integer
FFloor(x) ==
    IF x.e >= 0 THEN ShiftLeft(x.m, x.e)
    ELSE { b + x.e : b \in { c \in x.m : c + x.e >= 0 } }

\* 2 ** r and 2.0 ** r
Pow2(r) == ShiftLeft({0}, r)

FPow2(r) == [m |-> {0}, e |-> r]

\* line 58: the literal 0.77351 as the double Python reads it.
Phi == [m |-> {0, 4, 5, 6, 13, 18, 21, 24, 25, 27, 35, 36, 39, 46, 47, 51, 52}, e |-> -53]

\* Mutant of Fm1QueryValue: the result is kept in a 64-bit word.
Fm1QueryWrapped(r) == BitAnd(FFloor(FDiv(ToDouble(Pow2(r)), Phi)), mask)

\* Mutant of Fm1QueryValue: the division by the correction factor is left out.
Fm1QueryNoCorrection(r) == Pow2(r)

\* line 58: math.floor((2 ** self.R) / 0.77351)
Fm1QueryValue(r) == FFloor(FDiv(ToDouble(Pow2(r)), Phi))

\* np.sum of the doubles f[0], ..., f[cnt-1]: added left to right.
RECURSIVE FSumLoop(_, _, _, _)
FSumLoop(f, j, cnt, acc) ==
    IF j >= cnt THEN acc ELSE FSumLoop(f, j + 1, cnt, FAdd(acc, f[j]))

FZero == [m |-> {}, e |-> 0]

FSum(f, cnt) == FSumLoop(f, 0, cnt, FZero)

\* np.mean: the sum divided by the count.
FMean(f, cnt) == FDiv(FSum(f, cnt), ToDouble(IntBits(cnt)))

\* The element of rank r (from 0) of f[0..cnt-1] in increasing order.
Ranked(f, cnt, r) ==
    LET x == CHOOSE y \in { f[j] : j \in 0..(cnt - 1) } :
                 /\ Cardinality({ j \in 0..(cnt - 1) : FLess(f[j], y) }) <= r
                 /\ r < Cardinality({ j \in 0..(cnt - 1) : ~FLess(y, f[j]) })
    IN  x

\* Mutant of FMedian: the upper middle element, also for an even count.
FMedianUpper(f, cnt) == Ranked(f, cnt, cnt \div 2)

\* np.median: the middle element, or the mean of the two middle elements.
FMedian(f, cnt) ==
    IF cnt % 2 = 1 THEN Ranked(f, cnt, cnt \div 2)
    ELSE FDiv(FAdd(FAdd(FZero, Ranked(f, cnt, cnt \div 2 - 1)),
                   Ranked(f, cnt, cnt \div 2)),
              ToDouble(IntBits(2)))

\* 2.0 ** self.R_TABLE, row i
PowRow(tab, i) == [j \in 0..(s - 1) |-> FPow2(tab[<<i, j>>])]

\* lines 105-106
MedianOfMeansValue(tab) ==
    LET mean_array == [i \in 0..(t - 1) |-> FMean(PowRow(tab, i), s)]
    IN  FFloor(FMedian(mean_array, t))

\* Mutant of MeanOfMediansValue: the mean and the median are swapped.
MeanOfMediansSwapped(tab) == MedianOfMeansValue(tab)

\* lines 110-111
MeanOfMediansValue(tab) ==
    LET median_array == [i \in 0..(t - 1) |-> FMedian(PowRow(tab, i), s)]
    IN  FFloor(FMean(median_array, t))

\* With an empty row or no row, the mean or median is NaN and math.floor
\* raises ValueError.
FmstQueryRaises == s = 0 \/ t = 0

---------------------------------------------------------------------------
(* The state after construction.                                           *)

NoCall == [op |-> "none", arg |-> << >>, exc |-> "none", bool |-> FALSE, num |-> {}]

NoOther == [array |-> << >>, inserted |-> {}]

Salts == 0..MaxSalt

InitHistory ==
    /\ inserted = {}
    /\ last = NoCall
    /\ visits = << >>

\* Bfilter(m, p), lines 42-48
InitBfilter ==
    /\ kind = "Bfilter"
    /\ \E m \in MVals, p \in PVals :
          /\ args = [m |-> m, p |-> p]
          /\ status = BfInitStatus(m, p)
          /\ n = IF BfInitStatus(m, p) = "ok" THEN BfN(m, p) ELSE 0
          /\ k = IF BfInitStatus(m, p) = "ok" THEN BfK(m, p) ELSE 0
          /\ array = IF BfInitStatus(m, p) = "ok" THEN ZeroArray(BfN(m, p)) ELSE << >>
    /\ R = 0 /\ s = 0 /\ t = 0 /\ R_TABLE = << >>

\* FM_1(), lines 37-39
InitFM_1 ==
    /\ kind = "FM_1"
    /\ args = << >>
    /\ status = "ok"
    /\ R = 0
    /\ n = 0 /\ k = 0 /\ array = << >>
    /\ s = 0 /\ t = 0 /\ R_TABLE = << >>

SVals == -1..MaxS

TVals == -1..MaxT

\* FM_st(s, t), lines 66-83
InitFM_st ==
    /\ kind = "FM_st"
    /\ \E ss \in SVals, tt \in TVals :
          /\ args = [s |-> ss, t |-> tt]
          /\ status = FmstInitStatus(ss, tt)
          /\ s = ss
          /\ t = tt
          /\ R_TABLE = IF FmstInitStatus(ss, tt) = "ok" THEN ZeroTable(ss, tt) ELSE << >>
    /\ n = 0 /\ k = 0 /\ array = << >> /\ R = 0

Init ==
    /\ salt \in Salts
    /\ InitBfilter \/ InitFM_1 \/ InitFM_st
    /\ InitHistory
    /\ other = NoOther
    /\ procs = << >>

---------------------------------------------------------------------------
(* The method calls.  A call on an object whose constructor raised is not  *)
(* possible: there is no object.                                           *)

Call(op, arg) == [NoCall EXCEPT !.op = op, !.arg = arg]

\* Bfilter.insert, lines 50-54
BfInsert(element) ==
    /\ kind = "Bfilter" /\ status = "ok"
    /\ IF BfRaises
       THEN /\ last' = [Call("insert", element) EXCEPT !.exc = "ZeroDivisionError"]
            /\ UNCHANGED <<array, inserted>>
       ELSE /\ array' = BfInsertLoop(array, element, 0)
            /\ inserted' = inserted \cup {element}
            /\ last' = Call("insert", element)
    /\ UNCHANGED <<kind, status, args, salt, n, k, R, s, t, R_TABLE, visits, other, procs>>

\* Mutant of BfMembership: the test of the bit is written as an assignment.
BfMembershipWrites(element) ==
    /\ kind = "Bfilter" /\ status = "ok" /\ ~BfRaises
    /\ array' = BfInsertLoop(array, element, 0)
    /\ last' = [Call("membership", element) EXCEPT !.bool = TRUE]
    /\ UNCHANGED <<kind, status, args, salt, n, k, R, s, t, R_TABLE,
                   inserted, visits, other, procs>>

\* Bfilter.membership, lines 58-64
BfMembership(element) ==
    /\ kind = "Bfilter" /\ status = "ok"
    /\ last' = IF BfRaises
               THEN [Call("membership", element) EXCEPT !.exc = "ZeroDivisionError"]
               ELSE [Call("membership", element) EXCEPT
                        !.bool = BfMembershipLoop(array, element, 0)]
    /\ UNCHANGED <<kind, status, args, salt, n, k, array, R, s, t, R_TABLE,
                   inserted, visits, other, procs>>

\* FM_1.insert, lines 41-54
Fm1Insert(element) ==
    /\ kind = "FM_1" /\ status = "ok"
    /\ R' = Fm1InsertR(R, element)
    /\ inserted' = inserted \cup {element}
    /\ last' = Call("insert", element)
    /\ UNCHANGED <<kind, status, args, salt, n, k, array, s, t, R_TABLE, visits, other, procs>>

\* FM_1.query, lines 56-58
Fm1Query ==
    /\ kind = "FM_1" /\ status = "ok"
    /\ last' = [Call("query", << >>) EXCEPT !.num = Fm1QueryValue(R)]
    /\ UNCHANGED <<kind, status, args, salt, n, k, array, R, s, t, R_TABLE,
                   inserted, visits, other, procs>>

\* FM_st.insert, lines 85-100
FmstInsert(element) ==
    /\ kind = "FM_st" /\ status = "ok"
    /\ LET run == FmstInsertTable(R_TABLE, element)
       IN  /\ R_TABLE' = run.tab
           /\ visits' = run.log
    /\ inserted' = inserted \cup {element}
    /\ last' = Call("insert", element)
    /\ UNCHANGED <<kind, status, args, salt, n, k, array, R, s, t, other, procs>>

\* FM_st.query_median_of_means, lines 103-106
FmstQueryMedianOfMeans ==
    /\ kind = "FM_st" /\ status = "ok"
    /\ last' = IF FmstQueryRaises
               THEN [Call("query_median_of_means", << >>) EXCEPT !.exc = "ValueError"]
               ELSE [Call("query_median_of_means", << >>) EXCEPT
                        !.num = MedianOfMeansValue(R_TABLE)]
    /\ UNCHANGED <<kind, status, args, salt, n, k, array, R, s, t, R_TABLE,
                   inserted, visits, other, procs>>

\* FM_st.query_mean_of_medians, lines 108-111
FmstQueryMeanOfMedians ==
    /\ kind = "FM_st" /\ status = "ok"
    /\ last' = IF FmstQueryRaises
               THEN [Call("query_mean_of_medians", << >>) EXCEPT !.exc = "ValueError"]
               ELSE [Call("query_mean_of_medians", << >>) EXCEPT
                        !.num = MeanOfMediansValue(R_TABLE)]
    /\ UNCHANGED <<kind, status, args, salt, n, k, array, R, s, t, R_TABLE,
                   inserted, visits, other, procs>>

Next ==
    \/ \E element \in Elems : BfInsert(element)
    \/ \E element \in Elems : BfMembership(element)
    \/ \E element \in Elems : Fm1Insert(element)
    \/ Fm1Query
    \/ \E element \in Elems : FmstInsert(element)
    \/ FmstQueryMedianOfMeans
    \/ FmstQueryMeanOfMedians

Spec == Init /\ [][Next]_vars

---------------------------------------------------------------------------
(* One FM_1 fed with elements of any digest.  What insert does with an     *)
(* element depends only on the masked digest val of line 46, so the        *)
(* element is drawn as its val: every number of trailing zero bits from 0  *)
(* to 63, below a lone 1 bit and below a mixed pattern of higher bits, and *)
(* the val 0.  The history of the elements is not kept here.               *)

DigestVals ==
    {{}} \cup { {z} : z \in 0..63 }
         \cup { {z} \cup { b \in (z + 1)..63 : (b - z) % 2 = 1 } : z \in 0..62 }

InitDigest ==
    /\ salt = 0
    /\ InitFM_1
    /\ InitHistory
    /\ other = NoOther
    /\ procs = << >>

\* FM_1.insert, lines 41-54, from the masked digest on (lines 49-54)
Fm1InsertDigest(val) ==
    /\ kind = "FM_1" /\ status = "ok"
    /\ R' = CellUpdate(R, Zeros(val))
    /\ last' = Call("insert", val)
    /\ UNCHANGED <<kind, status, args, salt, n, k, array, s, t, R_TABLE,
                   inserted, visits, other, procs>>

NextDigest ==
    \/ \E val \in DigestVals : Fm1InsertDigest(val)
    \/ Fm1Query

SpecDigest == InitDigest /\ [][NextDigest]_vars

---------------------------------------------------------------------------
(* Two filters with the same n and k (built from the same arguments, with  *)
(* the same hash function), filled with disjoint sets of elements: array   *)
(* and inserted are the first filter, other is the second.                 *)

InitMerge ==
    /\ salt \in Salts
    /\ InitBfilter
    /\ status = "ok"
    /\ InitHistory
    /\ other = [array |-> array, inserted |-> {}]
    /\ procs = << >>

\* insert on the first filter, of an element the second does not hold
MergeInsertFirst(element) ==
    /\ element \notin other.inserted
    /\ BfInsert(element)

\* insert on the second filter (lines 50-54), of an element the first does
\* not hold
MergeInsertSecond(element) ==
    /\ kind = "Bfilter" /\ status = "ok"
    /\ element \notin inserted
    /\ IF BfRaises
       THEN /\ last' = [Call("insert", element) EXCEPT !.exc = "ZeroDivisionError"]
            /\ UNCHANGED other
       ELSE /\ other' = [array |-> BfInsertLoop(other.array, element, 0),
                         inserted |-> other.inserted \cup {element}]
            /\ last' = Call("insert", element)
    /\ UNCHANGED <<kind, status, args, salt, n, k, array, R, s, t, R_TABLE,
                   inserted, visits, procs>>

NextMerge ==
    \/ \E element \in Elems : MergeInsertFirst(element)
    \/ \E element \in Elems : MergeInsertSecond(element)

SpecMerge == InitMerge /\ [][NextMerge]_vars

\* The driver's loop (lines 106-107): every element of a set inserted, one
\* after the other.
RECURSIVE BfInsertAll(_, _)
BfInsertAll(arr, elements) ==
    IF elements = {} THEN arr
    ELSE LET x == CHOOSE y \in elements : TRUE
         IN  BfInsertAll(BfInsertLoop(arr, x, 0), elements \ {x})

---------------------------------------------------------------------------
(* Interleaved insert calls on one Bfilter or one FM_st.  Each call is at  *)
(* a position of its loop; a step of a call is one iteration: one bit set, *)
(* or one cell updated, atomically.                                        *)

Procs == 1..NumProcs

StartOf(element) == [element |-> element, i |-> 0, j |-> 0, seed |-> 0, pc |-> "run"]

InitConc ==
    /\ salt \in Salts
    /\ InitBfilter \/ InitFM_st
    /\ status = "ok"
    /\ s * t <= MaxConcCells
    /\ InitHistory
    /\ other = NoOther
    /\ procs \in [Procs -> { StartOf(element) : element \in Elems }]

\* One iteration of the loop of Bfilter.insert (lines 53-54) in call p; the
\* call returns with the last iteration, or at once when the loop is empty.
ConcBfStep(p) ==
    /\ kind = "Bfilter"
    /\ procs[p].pc = "run"
    /\ IF procs[p].i >= k
       THEN /\ procs' = [procs EXCEPT ![p].pc = "done"]
            /\ UNCHANGED array
       ELSE IF n = 0
       THEN /\ procs' = [procs EXCEPT ![p].pc = "ZeroDivisionError"]
            /\ UNCHANGED array
       ELSE /\ array' = SetBit(array, BfIndex(procs[p].element, procs[p].i))
            /\ procs' = [procs EXCEPT ![p].i = @ + 1,
                                      ![p].pc = IF procs[p].i + 1 >= k THEN "done" ELSE "run"]
    /\ UNCHANGED <<kind, status, args, salt, n, k, R, s, t, R_TABLE,
                   inserted, last, visits, other>>

\* One iteration of the inner loop of FM_st.insert (lines 88-100) in call p,
\* with the loop control that follows it: the next column, the next row, or
\* the return.  A grid without cells is left at once.
ConcFmstStep(p) ==
    /\ kind = "FM_st"
    /\ procs[p].pc = "run"
    /\ LET c == procs[p]
       IN  IF t <= 0 \/ s <= 0
           THEN /\ procs' = [procs EXCEPT ![p].pc = "done"]
                /\ UNCHANGED R_TABLE
           ELSE /\ R_TABLE' = [R_TABLE EXCEPT ![<<c.i, c.j>>] =
                                  CellUpdate(@, Zeros(FmstVal(c.element, c.seed)))]
                /\ procs' = [procs EXCEPT ![p] =
                       IF c.j + 1 < s
                       THEN [c EXCEPT !.j = c.j + 1, !.seed = NextSeed(c.seed)]
                       ELSE IF c.i + 1 < t
                       THEN [c EXCEPT !.i = c.i + 1, !.j = 0, !.seed = NextSeed(c.seed)]
                       ELSE [c EXCEPT !.i = c.i + 1, !.j = 0, !.seed = NextSeed(c.seed),
                                      !.pc = "done"]]
    /\ UNCHANGED <<kind, status, args, salt, n, k, array, R, s, t,
                   inserted, last, visits, other>>

NextConc ==
    \/ \E p \in Procs : ConcBfStep(p)
    \/ \E p \in Procs : ConcFmstStep(p)

SpecConc == InitConc /\ [][NextConc]_vars

---------------------------------------------------------------------------
(* The properties.                                                         *)

IsBfilter == kind = "Bfilter" /\ status = "ok"

IsFM_1 == kind = "FM_1" /\ status = "ok"

IsFM_st == kind = "FM_st" /\ status = "ok"

Cells == DOMAIN R_TABLE

\* C1: no false negatives.  In a filter built with valid (m, p), membership
\* is true of every element whose insert has completed, in every later
\* state, and a membership call on such an element returns True.
C1_NoFalseNegatives ==
    (IsBfilter /\ BfValidArgs(args.m, args.p)) =>
        /\ \A x \in inserted : BfMembershipLoop(array, x, 0)
        /\ (last.op = "membership" /\ last.arg \in inserted) =>
               (last.exc = "none" /\ last.bool)

\* An inserted element was queried after another element was inserted, in a
\* filter that still rejects some element.
C1_Witness ==
    /\ IsBfilter /\ BfValidArgs(args.m, args.p)
    /\ Cardinality(inserted) >= 2
    /\ last.op = "membership" /\ last.arg \in inserted /\ last.bool
    /\ \E y \in Elems : ~BfMembershipLoop(array, y, 0)

\* C2: Bfilter(m, p) raises whenever m <= 0 or p is not strictly between 0
\* and 1 (p is in tenths).
C2_InvalidBfilterArgsRejected ==
    (kind = "Bfilter" /\ ~BfValidArgs(args.m, args.p)) => status # "ok"

\* C3: FM_st(s, t) raises whenever s <= 0 or t <= 0.
C3_InvalidGridArgsRejected ==
    (kind = "FM_st" /\ (args.s <= 0 \/ args.t <= 0)) => status # "ok"

\* C4: the bit array has n bits, all 0, at construction; its length never
\* changes, and no step clears a bit.
C4_BitArrayMonotone ==
    /\ IsBfilter => array = [i \in 0..(n - 1) |-> 0]
    /\ [][ /\ DOMAIN array' = DOMAIN array
           /\ n' = n
           /\ \A i \in DOMAIN array : array[i] = 1 => array'[i] = 1 ]_vars

\* Two inserts have run, some bits are 1 and some are still 0.
C4_Witness ==
    /\ IsBfilter
    /\ Cardinality(inserted) >= 2
    /\ \E i \in DOMAIN array : array[i] = 1
    /\ \E i \in DOMAIN array : array[i] = 0

\* C5: inserting an element that was inserted before leaves the state as it
\* is, and inserting any element twice gives the state of inserting it once
\* (bit array, R and every cell of R_TABLE).
C5_InsertIdempotent ==
    /\ (IsBfilter /\ ~BfRaises) =>
           /\ \A x \in inserted : BfInsertLoop(array, x, 0) = array
           /\ \A x \in Elems :
                  BfInsertLoop(BfInsertLoop(array, x, 0), x, 0) = BfInsertLoop(array, x, 0)
    /\ IsFM_1 =>
           /\ \A x \in inserted : Fm1InsertR(R, x) = R
           /\ \A x \in Elems : Fm1InsertR(Fm1InsertR(R, x), x) = Fm1InsertR(R, x)
    /\ IsFM_st =>
           /\ \A x \in inserted : FmstInsertTable(R_TABLE, x).tab = R_TABLE
           /\ \A x \in Elems :
                  FmstInsertTable(FmstInsertTable(R_TABLE, x).tab, x).tab
                      = FmstInsertTable(R_TABLE, x).tab

\* A grid that holds two elements, where a third one would still change it.
C5_Witness ==
    /\ IsFM_st
    /\ Cardinality(inserted) >= 2
    /\ last.op = "insert"
    /\ \E x \in Elems \ inserted : FmstInsertTable(R_TABLE, x).tab # R_TABLE

\* C6: R and every cell of R_TABLE start at 0, never decrease, and stay in
\* 0..64.
C6_CountersMonotone ==
    /\ R = 0 /\ \A c \in Cells : R_TABLE[c] = 0
    /\ [](R \in 0..64 /\ \A c \in Cells : R_TABLE[c] \in 0..64)
    /\ [][ /\ R' >= R
           /\ Cells' = Cells
           /\ \A c \in Cells : R_TABLE'[c] >= R_TABLE[c] ]_vars

\* After two inserts one cell is at 64 (a digest whose low 64 bits are 0)
\* and another cell is lower but not 0.
C6_Witness ==
    /\ IsFM_st
    /\ Cardinality(inserted) >= 2
    /\ \E c \in Cells : R_TABLE[c] = 64
    /\ \E c \in Cells : R_TABLE[c] > 0 /\ R_TABLE[c] < 64

\* C7: every FM_st.insert updates each of the t*s cells exactly once, cell
\* (i, j) with the hash of seed i*s + j.
C7_SeedPerCell ==
    (IsFM_st /\ last.op = "insert") =>
        /\ Len(visits) = Cardinality(Cells)
        /\ \A i \in 0..(t - 1), j \in 0..(s - 1) :
              /\ Cardinality({ q \in 1..Len(visits) :
                                 visits[q][1] = i /\ visits[q][2] = j }) = 1
              /\ \A q \in 1..Len(visits) :
                    (visits[q][1] = i /\ visits[q][2] = j) => visits[q][3] = i * s + j

\* A later insert into a grid of at least two rows and two columns.
C7_Witness ==
    /\ IsFM_st /\ last.op = "insert"
    /\ s >= 2 /\ t >= 2
    /\ Cardinality(inserted) >= 2
    /\ Len(visits) = 4

QueryOps == {"membership", "query", "query_median_of_means", "query_mean_of_medians"}

\* C8: a query leaves n, k, the bit array, R, s, t and R_TABLE as they are,
\* and a query that directly follows the same query returns the same result.
C8_QueriesPure ==
    [][ last'.op \in QueryOps =>
           /\ UNCHANGED <<n, k, array, R, s, t, R_TABLE>>
           /\ (last.op = last'.op /\ last.arg = last'.arg) => last' = last ]_vars

\* A query has returned a non-zero estimate, or a membership of True, on an
\* object that holds at least one element.
C8_Witness ==
    /\ last.op \in QueryOps
    /\ inserted # {}
    /\ last.exc = "none"
    /\ last.bool \/ last.num # {}

\* a | b of two bit arrays of the same length
ArrayOr(a, b) == [i \in DOMAIN a |-> IF a[i] = 1 \/ b[i] = 1 THEN 1 ELSE 0]

\* C9: for two filters with the same n and k over disjoint element sets,
\* the bitwise OR of the two bit arrays is the bit array of one fresh filter
\* into which every element of both sets was inserted, and membership on it
\* is true of every element of either set.
C9_MergeIsUnion ==
    IsBfilter =>
        LET merged == ArrayOr(array, other.array)
            union  == inserted \cup other.inserted
        IN  /\ merged = BfInsertAll(ZeroArray(n), union)
            /\ ~BfRaises => \A x \in union : BfMembershipLoop(merged, x, 0)

\* Both filters hold an element, each has a bit the other lacks, and the
\* merged array still rejects some element.
C9_Witness ==
    /\ IsBfilter
    /\ inserted # {} /\ other.inserted # {}
    /\ \E i \in DOMAIN array : array[i] = 1 /\ other.array[i] = 0
    /\ \E i \in DOMAIN array : array[i] = 0 /\ other.array[i] = 1
    /\ \E y \in Elems : ~BfMembershipLoop(ArrayOr(array, other.array), y, 0)

\* The calls, in the order o, run one after the other from the state after
\* construction.
RECURSIVE SeqBf(_, _, _)
SeqBf(arr, o, q) ==
    IF q > NumProcs THEN arr
    ELSE SeqBf(BfInsertLoop(arr, procs[o[q]].element, 0), o, q + 1)

RECURSIVE SeqFmst(_, _, _)
SeqFmst(tab, o, q) ==
    IF q > NumProcs THEN tab
    ELSE SeqFmst(FmstInsertTable(tab, procs[o[q]].element).tab, o, q + 1)

Orders == { o \in [Procs -> Procs] : \A a, b \in Procs : a # b => o[a] # o[b] }

AllDone == \A p \in Procs : procs[p].pc = "done"

\* C10: when interleaved insert calls have all completed, the bit array or
\* the grid is what running the same calls one after the other gives, in
\* whatever order.
C10_InterleavedEqualsSequential ==
    AllDone =>
        /\ kind = "Bfilter" => \A o \in Orders : array = SeqBf(ZeroArray(n), o, 1)
        /\ kind = "FM_st" => \A o \in Orders : R_TABLE = SeqFmst(ZeroTable(s, t), o, 1)

\* Two calls with different elements have completed on a grid of at least
\* two cells, and left different counters in it.
C10_Witness ==
    /\ AllDone
    /\ kind = "FM_st"
    /\ \E a, b \in Procs : procs[a].element # procs[b].element
    /\ \E c, d \in Cells : R_TABLE[c] # R_TABLE[d]
    /\ \E c \in Cells : R_TABLE[c] > 0

\* The arguments each constructor asks for: m >= 1 and 0 < p < 1 for Bfilter,
\* s >= 1 and t >= 1 for FM_st; FM_1 takes none.
ValidArgs ==
    CASE kind = "Bfilter" -> BfValidArgs(args.m, args.p)
      [] kind = "FM_st"   -> args.s >= 1 /\ args.t >= 1
      [] OTHER            -> TRUE

ExactFm1Estimate(r) ==
    BigDivMod(ShiftLeft(IntBits(100000), r), IntBits(77351)).q

\* The statement of C12 as written: the value FM_1.query returns is the
\* exact floor(2^R / 0.77351), for every R in 0..64.
C12_QueryIsExactFloor ==
    (IsFM_1 /\ last.op = "query") => last.num = ExactFm1Estimate(R)

\* C12, amended: FM_1.query returns a whole number, the floor of the
\* double-precision quotient 2^R / 0.77351.  It is the exact
\* floor(2^R / 0.77351) for every R in 0..52 (1 on a fresh sketch); for R
\* in 53..64 it is not above the exact floor and less than 2^(R-52) below it.
C12_QueryIsDoubleFloor ==
    (IsFM_1 /\ last.op = "query") =>
        /\ last.exc = "none"
        /\ \A b \in last.num : b \in Nat
        /\ R = 0 => last.num = {0}
        /\ R <= 52 => last.num = ExactFm1Estimate(R)
        /\ R > 52 =>
              /\ ~BigLess(ExactFm1Estimate(R), last.num)
              /\ BigLess(BigSub(ExactFm1Estimate(R), last.num), Pow2(R - 52))

\* A query on a sketch with R = 64 has returned less than the exact floor.
C12_Witness ==
    /\ IsFM_1 /\ last.op = "query"
    /\ R = 64
    /\ BigLess(last.num, ExactFm1Estimate(R))

\* The sum of the naturals f[0], ..., f[cnt-1], in exact arithmetic.
RECURSIVE BigSumLoop(_, _, _, _)
BigSumLoop(f, j, cnt, acc) ==
    IF j >= cnt THEN acc ELSE BigSumLoop(f, j + 1, cnt, BigAdd(acc, f[j]))

\* The natural of rank r (from 0) of f[0..cnt-1] in increasing order.
BigRanked(f, cnt, r) ==
    CHOOSE y \in { f[j] : j \in 0..(cnt - 1) } :
        /\ Cardinality({ j \in 0..(cnt - 1) : BigLess(f[j], y) }) <= r
        /\ r < Cardinality({ j \in 0..(cnt - 1) : ~BigLess(y, f[j]) })

\* The sum of 2^tab[i, j] over row i, and over the whole grid.
ExactRowSum(tab, i) ==
    BigSumLoop([j \in 0..(s - 1) |-> Pow2(tab[<<i, j>>])], 0, s, {})

GridSum(tab) ==
    BigSumLoop([i \in 0..(t - 1) |-> ExactRowSum(tab, i)], 0, t, {})

\* floor(median over the rows of (mean over the columns of 2^tab[i, j])) in
\* exact arithmetic.  The row means are the row sums over s, so the median
\* row is the row of median sum, and the mean of two middle means is the
\* sum of their two sums over 2 * s.
ExactMedianOfMeans(tab) ==
    LET sums == [i \in 0..(t - 1) |-> ExactRowSum(tab, i)]
    IN  IF t % 2 = 1
        THEN BigDivMod(BigRanked(sums, t, t \div 2), IntBits(s)).q
        ELSE BigDivMod(BigAdd(BigRanked(sums, t, t \div 2 - 1),
                              BigRanked(sums, t, t \div 2)),
                       IntBits(2 * s)).q

\* The counter of rank r (from 0) of row i in increasing order.
RowRanked(tab, i, r) ==
    CHOOSE y \in { tab[<<i, j>>] : j \in 0..(s - 1) } :
        /\ Cardinality({ j \in 0..(s - 1) : tab[<<i, j>>] < y }) <= r
        /\ r < Cardinality({ j \in 0..(s - 1) : tab[<<i, j>>] <= y })

\* Twice the median of the powers 2^tab[i, j] of row i, a whole number.
TwiceRowMedian(tab, i) ==
    IF s % 2 = 1 THEN Pow2(RowRanked(tab, i, s \div 2) + 1)
    ELSE BigAdd(Pow2(RowRanked(tab, i, s \div 2 - 1)), Pow2(RowRanked(tab, i, s \div 2)))

\* floor(mean over the rows of (median over the columns of 2^tab[i, j])) in
\* exact arithmetic: the sum of the doubled medians over 2 * t.
ExactMeanOfMedians(tab) ==
    BigDivMod(BigSumLoop([i \in 0..(t - 1) |-> TwiceRowMedian(tab, i)], 0, t, {}),
              IntBits(2 * t)).q

C15_MembershipReadsKBits ==
    IsBfilter =>
        /\ (last.op = "membership" /\ last.exc = "none") =>
               (last.bool <=> \A i \in 0..(k - 1) : array[BfIndex(last.arg, i)] = 1)
        /\ (k >= 1 /\ ~BfRaises /\ \A i \in DOMAIN array : array[i] = 0) =>
               \A x \in Elems : ~BfMembershipLoop(array, x, 0)

\* membership has returned False for an element whose first bit is 1: the
\* 0 bit was found at a later index.
C15_Witness ==
    /\ IsBfilter /\ k >= 2
    /\ inserted # {}
    /\ last.op = "membership" /\ last.exc = "none" /\ ~last.bool
    /\ array[BfIndex(last.arg, 0)] = 1

\* Base hashes tried beyond those of the elements: the values of the table
\* and two of larger magnitude.
HashSamples == { MMH3Vals[q] : q \in DOMAIN MMH3Vals } \cup {-1000003, 1000003}

\* C16: in a filter of n >= 1 bits every index (h1 + i*h2) mod n, i in
\* 0..k-1, lies in 0..n-1, a position of the bit array, whatever the signs
\* of h1 and h2; and an insert of x writes exactly at the k indices that
\* membership reads for x: it changes no other bit and leaves a 1 at each.
C16_IndicesInRange ==
    /\ [](IsBfilter /\ n >= 1 =>
            /\ DOMAIN array = 0..(n - 1)
            /\ \A x \in Elems, i \in 0..(k - 1) : BfIndex(x, i) \in 0..(n - 1)
            /\ \A h1 \in HashSamples, h2 \in HashSamples, i \in 0..(k - 1) :
                   PyMod(h1 + i * h2, n) \in 0..(n - 1))
    /\ [][ (IsBfilter /\ last'.op = "insert" /\ last'.exc = "none") =>
              /\ \A j \in DOMAIN array :
                     array'[j] # array[j] =>
                         \E i \in 0..(k - 1) : j = BfIndex(last'.arg, i)
              /\ \A i \in 0..(k - 1) : array'[BfIndex(last'.arg, i)] = 1
              /\ BfMembershipLoop(array', last'.arg, 0) ]_vars

\* An insert has run in a filter of several bits and several hashes, for an
\* element where h1 + i*h2 is negative for some i below k.
C16_Witness ==
    /\ IsBfilter /\ n >= 2 /\ k >= 2
    /\ last.op = "insert" /\ last.exc = "none"
    /\ \E i \in 0..(k - 1) :
           mmh3_hash(last.arg, 1) + i * mmh3_hash(last.arg, 2) < 0

\* The number of consecutive 0 bits of a 64-bit val, from bit 0 up.
TrailingZeros(val) == Cardinality({ b \in 0..63 : \A c \in 0..b : c \notin val })

\* C17: for the masked 64-bit val of an insert, zeros is 64 when val is 0,
\* and otherwise (val & -val).bit_length() - 1 is the number of consecutive
\* 0 bits of val from the least significant bit, a number in 0..63; the
\* counter is at least that number after the insert.
C17_ZerosIsTrailingZeroCount ==
    (IsFM_1 /\ last.op = "insert") =>
        /\ last.arg \subseteq 0..63
        /\ last.arg = {} => Zeros(last.arg) = 64
        /\ last.arg # {} =>
              /\ Zeros(last.arg) = TrailingZeros(last.arg)
              /\ Zeros(last.arg) \in 0..63
              /\ BitAnd(last.arg, Neg(last.arg)) = {TrailingZeros(last.arg)}
        /\ R >= Zeros(last.arg)

\* An insert whose val has several 1 bits above its trailing zeros has
\* raised the counter to their number.
C17_Witness ==
    /\ IsFM_1 /\ last.op = "insert"
    /\ Cardinality(last.arg) >= 3
    /\ TrailingZeros(last.arg) >= 33
    /\ R = TrailingZeros(last.arg)

\* C18: a Bfilter built with m >= 1 and 0 < p < 1 is constructed without
\* an exception, has n >= 1 and k >= 1 in every state, and has k = 1 when
\* floor((n/m) * ln 2) is 0; no insert and no membership changes n or k.
C18_DerivedParameters ==
    /\ []((kind = "Bfilter" /\ BfValidArgs(args.m, args.p)) =>
             /\ status = "ok"
             /\ n >= 1 /\ k >= 1
             /\ FloorDiv(n * Ln2Milli, args.m * 1000) = 0 => k = 1
             /\ FloorDiv(n * Ln2Milli, args.m * 1000) # 0 =>
                    k = FloorDiv(n * Ln2Milli, args.m * 1000))
    /\ [][n' = n /\ k' = k]_vars

\* An insert and a membership have run in a filter whose floor((n/m) * ln 2)
\* is 0 and whose k is 1.
C18_Witness ==
    /\ IsBfilter /\ BfValidArgs(args.m, args.p)
    /\ FloorDiv(n * Ln2Milli, args.m * 1000) = 0
    /\ k = 1
    /\ inserted # {} /\ last.op = "membership"

\* C19: the state is a function of the set of the inserted elements alone,
\* whatever the order and the repetitions of the inserts that led to it:
\* the bit array is that of inserting the set into a fresh array, R is the
\* largest trailing-zero count over the set (0 for the empty set), and cell
\* (i, j) of the grid is the largest trailing-zero count of the hashes of
\* seed i*s + j over the set (0 for the empty set).
C19_StateIsFunctionOfSet ==
    /\ IsBfilter => array = BfInsertAll(ZeroArray(n), inserted)
    /\ IsFM_1 => R = SetMax({0} \cup { Zeros(Fm1Val(e)) : e \in inserted })
    /\ IsFM_st =>
           \A i \in 0..(t - 1), j \in 0..(s - 1) :
               R_TABLE[<<i, j>>] =
                   SetMax({0} \cup { Zeros(FmstVal(e, i * s + j)) : e \in inserted })

\* A grid of at least two rows and two columns holds every element of the
\* stream, the last call was an insert, and some cell holds more than what
\* the element of that insert gives it.
C19_Witness ==
    /\ IsFM_st /\ s >= 2 /\ t >= 2
    /\ inserted = Elems
    /\ last.op = "insert"
    /\ FmstInsertTable(ZeroTable(s, t), last.arg).tab # R_TABLE
    /\ \E i \in 0..(t - 1), j \in 0..(s - 1) :
           R_TABLE[<<i, j>>] > Zeros(FmstVal(last.arg, i * s + j))

\* C20: no step lowers an estimate: the value FM_1.query would return, and
\* on a grid with s >= 1 and t >= 1 the values query_median_of_means and
\* query_mean_of_medians would return, are after every step at least what
\* they were before it; and the value of FM_1.query does not decrease from
\* any R in 0..63 to R + 1 (a fact about the numbers alone, checked once,
\* on the fresh sketch).
C20_EstimatesNeverDecrease ==
    /\ [][ /\ (IsFM_1 /\ R' # R) =>
                  \A before \in {Fm1QueryValue(R)}, after \in {Fm1QueryValue(R')} :
                      ~BigLess(after, before)
           /\ (IsFM_st /\ s >= 1 /\ t >= 1 /\ R_TABLE' # R_TABLE) =>
                  /\ \A before \in {MedianOfMeansValue(R_TABLE)},
                        after \in {MedianOfMeansValue(R_TABLE')} :
                         ~BigLess(after, before)
                  /\ \A before \in {MeanOfMediansValue(R_TABLE)},
                        after \in {MeanOfMediansValue(R_TABLE')} :
                         ~BigLess(after, before) ]_vars
    /\ IsFM_1 =>
           \A r \in 0..63 :
               \A before \in {Fm1QueryValue(r)}, after \in {Fm1QueryValue(r + 1)} :
                   ~BigLess(after, before)

\* A later insert has changed a grid of at least two rows and two columns,
\* and both estimates are above what one of the elements alone gives.
C20_Witness ==
    /\ IsFM_st /\ s >= 2 /\ t >= 2
    /\ Cardinality(inserted) >= 2
    /\ last.op = "insert"
    /\ \E x \in inserted :
           LET alone == FmstInsertTable(ZeroTable(s, t), x).tab
           IN  /\ BigLess(MedianOfMeansValue(alone), MedianOfMeansValue(R_TABLE))
               /\ BigLess(MeanOfMediansValue(alone), MeanOfMediansValue(R_TABLE))

====
